---- MODULE Spec2Model ----
(***************************************************************************)
(* Model of bumpversion/configloader.py: the version value types           *)
(* (SubreleaseType, Subrelease, Release, FinalVersion, PublicVersion,      *)
(* Version), their ordering (_compare, compare, Comparable._compare),      *)
(* Release.bump, validate(), __str__ and Version.parse; and of main in     *)
(* bumpversion/cli.py: the new version, the dirty check, the check and     *)
(* the rewrite of the files, the config file and the commit.               *)
(*                                                                         *)
(* Python objects are tagged records: the field cls is the class, the      *)
(* other fields are the attributes.  A str is a sequence of one-character  *)
(* strings.  The outcome of a call is a record: raised = FALSE and the     *)
(* returned object, or raised = TRUE and the exception.                    *)
(*                                                                         *)
(* The NamedTuple classes are modelled with the Mutatable mix-in in        *)
(* effect, as the class statements declare it.                             *)
(***************************************************************************)
EXTENDS Integers, Sequences, FiniteSets

VARIABLES first, second, nmut, pc, op, out, rev, cform, text, release, bumpOut,
          bumpCall, values, partOut, partCall, store,
          args, mainPc, vcs, found, failure, effects, exit, fileIdx

vars == <<first, second, nmut, pc, op, out, rev, cform, text, release, bumpOut,
          bumpCall, values, partOut, partCall, store,
          args, mainPc, vcs, found, failure, effects, exit, fileIdx>>

\* The variables of the part-wise bump of a parsed version.
partVars == <<values, partOut, partCall>>

\* The variables of a run of main.
mainVars == <<args, mainPc, vcs, found, failure, effects, exit, fileIdx>>

(***************************************************************************)
(* Bounds of the model.                                                    *)
(***************************************************************************)
MaxNum == 1
MaxLen == 2
MaxMutations == 2
RecursionLimit == 6
MaxStep == 2
MaxPart == 3
MaxItem == 3
MaxValue == 9
MaxStore == 3
MaxBumps == 1
MaxFiles == 2

(***************************************************************************)
(* Python objects and call outcomes.                                       *)
(***************************************************************************)
None == [cls |-> "NoneType"]
PyInt(n) == [cls |-> "int", val |-> n]
PyBool(b) == [cls |-> "bool", val |-> b]
PyStr(s) == [cls |-> "str", chars |-> s]
Unset == [cls |-> "unset"]

Returns(obj) == [raised |-> FALSE, value |-> obj]
Raises(exc) == [raised |-> TRUE, value |-> [cls |-> exc]]
NoOutcome == Returns(Unset)

\* No part-wise bump has been asked for.
PartIdle == values = Unset /\ partOut = NoOutcome /\ partCall = Unset

\* main has not been called.
MainIdle ==
    /\ args = Unset
    /\ mainPc = ""
    /\ vcs = "None"
    /\ found = ""
    /\ failure = ""
    /\ effects = <<>>
    /\ exit = ""
    /\ fileIdx = 0

Min(S) == CHOOSE x \in S : \A y \in S : x <= y

\* Characters in code-point order; Ord gives the position used by str ordering.
Alphabet == <<"!", "+", ".", "0", "1", "2", "3", "4", "5", "6", "7", "8", "9",
              "N", "a", "b", "c", "d", "e", "n", "o", "p", "r", "s", "t", "v",
              "x", "z">>
Ord(c) == CHOOSE i \in 1..Len(Alphabet) : Alphabet[i] = c

(***************************************************************************)
(* SubreleaseType: a str-valued enum, declared ALPHA, BETA,                *)
(* RELEASE_CANDIDATE, POST.                                                *)
(***************************************************************************)
SubreleaseTypeValues == << <<"a">>, <<"b">>, <<"r", "c">>, <<"p", "o", "s", "t">> >>
SubreleaseType(s) == [cls |-> "SubreleaseType", chars |-> s]
ALPHA == SubreleaseType(SubreleaseTypeValues[1])
BETA == SubreleaseType(SubreleaseTypeValues[2])
RELEASE_CANDIDATE == SubreleaseType(SubreleaseTypeValues[3])
POST == SubreleaseType(SubreleaseTypeValues[4])
SubreleaseTypes == {ALPHA, BETA, RELEASE_CANDIDATE, POST}

IsStrLike(x) == x.cls \in {"str", "SubreleaseType"}

\* SubreleaseType.order with an unrecognized value placed after every member.
SubreleaseType_order_last(obj) ==
    IF IsStrLike(obj) /\ \E i \in 1..Len(SubreleaseTypeValues) : SubreleaseTypeValues[i] = obj.chars
    THEN 2 * ((CHOOSE i \in 1..Len(SubreleaseTypeValues) : SubreleaseTypeValues[i] = obj.chars) - 1)
    ELSE 7

\* SubreleaseType.order, in half units: 2 * (index in the enum), and 5 for
\* the 2.5 returned when SubreleaseType(obj) raises ValueError.
SubreleaseType_order(obj) ==
    IF IsStrLike(obj) /\ \E i \in 1..Len(SubreleaseTypeValues) : SubreleaseTypeValues[i] = obj.chars
    THEN 2 * ((CHOOSE i \in 1..Len(SubreleaseTypeValues) : SubreleaseTypeValues[i] = obj.chars) - 1)
    ELSE 5

SubreleaseType_is_pre(self) == self.chars # POST.chars

(***************************************************************************)
(* The value classes.                                                      *)
(***************************************************************************)
Subrelease(t, n) == [cls |-> "Subrelease", type |-> t, number |-> n]
Release(items) == [cls |-> "Release", items |-> items]
FinalVersion(epoch, rel) == [cls |-> "FinalVersion", epoch |-> epoch, release |-> rel]
PublicVersion(epoch, rel, sub, dev) ==
    [cls |-> "PublicVersion", epoch |-> epoch, release |-> rel, subrelease |-> sub, dev |-> dev]
Version(epoch, rel, sub, dev, local) ==
    [cls |-> "Version", epoch |-> epoch, release |-> rel, subrelease |-> sub, dev |-> dev,
     local |-> local]

\* The NamedTuple field order of each class.
Fields(cls) ==
    CASE cls = "Subrelease" -> <<"type", "number">>
      [] cls = "FinalVersion" -> <<"epoch", "release">>
      [] cls = "PublicVersion" -> <<"epoch", "release", "subrelease", "dev">>
      [] cls = "Version" -> <<"epoch", "release", "subrelease", "dev", "local">>

IsTuple(x) == x.cls \in {"Release", "Subrelease", "FinalVersion", "PublicVersion", "Version"}

\* The object seen as the tuple it is.
AsTuple(x) ==
    IF x.cls = "Release" THEN [i \in 1..Len(x.items) |-> PyInt(x.items[i])]
    ELSE IF x.cls = "Subrelease" THEN <<x.type, PyInt(x.number)>>
    ELSE [i \in 1..Len(Fields(x.cls)) |-> x[Fields(x.cls)[i]]]

is_pos_int(n) == n.cls = "int" /\ n.val >= 0

(***************************************************************************)
(* Python's == and its ordering operators on these objects.                *)
(***************************************************************************)
RECURSIVE PyEq(_, _)
\* x == y: str by characters (a SubreleaseType is a str), tuples element by
\* element whatever their class, anything else by value.
PyEq(x, y) ==
    IF IsStrLike(x) /\ IsStrLike(y) THEN x.chars = y.chars
    ELSE IF IsTuple(x) /\ IsTuple(y)
    THEN LET xs == AsTuple(x)
             ys == AsTuple(y)
         IN Len(xs) = Len(ys) /\ \A i \in 1..Len(xs) : PyEq(xs[i], ys[i])
    ELSE x = y

Bool(b) == IF b THEN "True" ELSE "False"
IsExc(o) == o \notin {"True", "False"}
Reflect(o) ==
    CASE o = ">" -> "<"
      [] o = "<" -> ">"
      [] o = ">=" -> "<="
      [] o = "<=" -> ">="
IntOp(m, n, o) ==
    CASE o = ">" -> m > n
      [] o = "<" -> m < n
      [] o = ">=" -> m >= n
      [] o = "<=" -> m <= n

\* str ordering: the first differing character decides, else the lengths.
StrOp(s, t, o) ==
    LET n == IF Len(s) < Len(t) THEN Len(s) ELSE Len(t)
        diff == {i \in 1..n : s[i] # t[i]}
    IN IF diff = {} THEN IntOp(Len(s), Len(t), o)
       ELSE IntOp(Ord(s[Min(diff)]), Ord(t[Min(diff)]), o)

\* SubreleaseType.__lt__, __le__, __ge__, __gt__
SubreleaseType_richcmp(self, other, o) ==
    Bool(IntOp(SubreleaseType_order(self), SubreleaseType_order(other), o))

\* x o y: the reflected method of a proper subclass on the right is asked
\* first (SubreleaseType is a subclass of str), otherwise the left
\* operand's method; then the other operand's reflected method; TypeError
\* when neither answers.
Answer(r1, r2) ==
    IF r1 # "NotImplemented" THEN r1
    ELSE IF r2 # "NotImplemented" THEN r2
    ELSE "TypeError"

Priority(x, y) == x.cls = "str" /\ y.cls = "SubreleaseType"
\* The operand whose method is asked first, the other one, and the operator
\* as the first one sees it.
Asked(x, y) == IF Priority(x, y) THEN y ELSE x
Other(x, y) == IF Priority(x, y) THEN x ELSE y
AskedOp(x, y, o) == IF Priority(x, y) THEN Reflect(o) ELSE o

\* tuple's rich comparison: the first pair of elements that are not equal
\* is compared with the operator, else the lengths are.  Differing is the
\* set of the positions of such pairs.
Differing(xs, ys) ==
    {i \in 1..(IF Len(xs) < Len(ys) THEN Len(xs) ELSE Len(ys)) : ~PyEq(xs[i], ys[i])}

\* type(x).__op__(x, y) for int, str, SubreleaseType and None: the outcome,
\* or "NotImplemented".
AtomMethod(x, y, o) ==
    CASE x.cls = "int" ->
           IF y.cls = "int" THEN Bool(IntOp(x.val, y.val, o)) ELSE "NotImplemented"
      [] x.cls = "str" ->
           IF IsStrLike(y) THEN Bool(StrOp(x.chars, y.chars, o)) ELSE "NotImplemented"
      [] x.cls = "SubreleaseType" -> SubreleaseType_richcmp(x, y, o)
      [] OTHER -> "NotImplemented"

\* x o y for the elements of a Release or of a Subrelease
AtomCompare(x, y, o) ==
    Answer(AtomMethod(Asked(x, y), Other(x, y), AskedOp(x, y, o)),
           AtomMethod(Other(x, y), Asked(x, y), Reflect(AskedOp(x, y, o))))

\* tuple's rich comparison of a Release or a Subrelease seen as a tuple
PlainRichCompare(xs, ys, o) ==
    IF Differing(xs, ys) = {} THEN Bool(IntOp(Len(xs), Len(ys), o))
    ELSE AtomCompare(xs[Min(Differing(xs, ys))], ys[Min(Differing(xs, ys))], o)

\* The same, and tuple's method for a Release.
PlainMethod(x, y, o) ==
    IF x.cls = "Release"
    THEN IF IsTuple(y) THEN PlainRichCompare(AsTuple(x), AsTuple(y), o)
         ELSE "NotImplemented"
    ELSE AtomMethod(x, y, o)

RECURSIVE Subrelease_gt(_, _, _)
\* Subrelease.__gt__; depth counts the Python frames in progress.  For a
\* Subrelease other, "other > self" is answered by other.__gt__(self).
Subrelease_gt(self, other, depth) ==
    IF depth > RecursionLimit THEN "RecursionError"
    ELSE IF other = None THEN "AttributeError"
    ELSE IF other.cls = "Subrelease" THEN Subrelease_gt(other, self, depth + 1)
    ELSE "NotImplemented"

\* self > other for a Subrelease self: __gt__, then the reflected method.
SubreleaseGreater(self, other, depth) ==
    Answer(Subrelease_gt(self, other, depth), PlainMethod(other, self, "<"))

\* Subrelease.__ge__
Subrelease_ge(self, other, depth) ==
    IF depth > RecursionLimit THEN "RecursionError"
    ELSE IF PyEq(self, other) THEN "True"
    ELSE SubreleaseGreater(self, other, depth + 1)

\* not r, for the outcome r of an operator
Not(r) == IF IsExc(r) THEN r ELSE Bool(r = "False")

\* Subrelease.__lt__
Subrelease_lt(self, other, depth) ==
    IF depth > RecursionLimit THEN "RecursionError"
    ELSE Not(Subrelease_ge(self, other, depth + 1))

\* Subrelease.__le__
Subrelease_le(self, other, depth) ==
    IF depth > RecursionLimit THEN "RecursionError"
    ELSE IF PyEq(self, other) THEN "True"
    ELSE Subrelease_lt(self, other, depth + 1)

\* type(x).__op__(x, y) for the field values: the above and Subrelease.
FieldMethod(x, y, o) ==
    IF x.cls = "Subrelease"
    THEN CASE o = ">" -> Subrelease_gt(x, y, 1)
           [] o = ">=" -> Subrelease_ge(x, y, 1)
           [] o = "<" -> Subrelease_lt(x, y, 1)
           [] o = "<=" -> Subrelease_le(x, y, 1)
    ELSE PlainMethod(x, y, o)

\* x o y for the fields of a version
FieldCompare(x, y, o) ==
    Answer(FieldMethod(Asked(x, y), Other(x, y), AskedOp(x, y, o)),
           FieldMethod(Other(x, y), Asked(x, y), Reflect(AskedOp(x, y, o))))

\* tuple's rich comparison of a FinalVersion, PublicVersion or Version
TupleRichCompare(xs, ys, o) ==
    IF Differing(xs, ys) = {} THEN Bool(IntOp(Len(xs), Len(ys), o))
    ELSE FieldCompare(xs[Min(Differing(xs, ys))], ys[Min(Differing(xs, ys))], o)

\* type(x).__op__(x, y) for every object: the above and tuple's method for
\* FinalVersion, PublicVersion and Version.
Method(x, y, o) ==
    IF x.cls \in {"FinalVersion", "PublicVersion", "Version"}
    THEN IF IsTuple(y) THEN TupleRichCompare(AsTuple(x), AsTuple(y), o)
         ELSE "NotImplemented"
    ELSE FieldMethod(x, y, o)

\* x o y
PyCompare(x, y, o) ==
    Answer(Method(Asked(x, y), Other(x, y), AskedOp(x, y, o)),
           Method(Other(x, y), Asked(x, y), Reflect(AskedOp(x, y, o))))

(***************************************************************************)
(* Methods of the value classes.                                           *)
(***************************************************************************)
\* Mutatable.mutate: a new object of the same class with one field replaced.
Mutatable_mutate(self, key, value) == [self EXCEPT ![key] = value]

\* PublicVersion.final
PublicVersion_final(self) == FinalVersion(self.epoch, self.release)

\* Version.public: built from three arguments, dev keeps its default None.
Version_public(self) == PublicVersion(self.epoch, self.release, self.subrelease, None)

\* Version.final
Version_final(self) == PublicVersion_final(Version_public(self))

\* FinalVersion._comparable without the epoch fill.
FinalVersion_comparable_nofill(self) == self

\* FinalVersion._comparable
FinalVersion_comparable(self) ==
    IF self.epoch = None THEN Mutatable_mutate(self, "epoch", PyInt(0)) ELSE self

\* PublicVersion._comparable with 0 for the missing dev number.
PublicVersion_comparable_dev0(self) ==
    LET out1 == IF self.epoch = None THEN Mutatable_mutate(self, "epoch", PyInt(0)) ELSE self
    IN IF out1.dev = None THEN Mutatable_mutate(out1, "dev", PyInt(0)) ELSE out1

\* PublicVersion._comparable
PublicVersion_comparable(self) ==
    LET out1 == IF self.epoch = None THEN Mutatable_mutate(self, "epoch", PyInt(0)) ELSE self
    IN IF out1.dev = None THEN Mutatable_mutate(out1, "dev", PyInt(-1)) ELSE out1

\* Version._comparable
Version_comparable(self) ==
    LET out1 == IF self.epoch = None THEN Mutatable_mutate(self, "epoch", PyInt(0)) ELSE self
        out2 == IF out1.dev = None THEN Mutatable_mutate(out1, "dev", PyInt(-1)) ELSE out1
    IN IF out2.local = None THEN Mutatable_mutate(out2, "local", PyStr(<<>>)) ELSE out2

HasComparable(x) == x.cls \in {"FinalVersion", "PublicVersion", "Version"}

\* x._comparable() for the classes that define it.
Comparable(x) ==
    CASE x.cls = "FinalVersion" -> FinalVersion_comparable(x)
      [] x.cls = "PublicVersion" -> PublicVersion_comparable(x)
      [] x.cls = "Version" -> Version_comparable(x)

(***************************************************************************)
(* str() of integers, releases and final versions.                         *)
(***************************************************************************)
Digit(d) == <<"0", "1", "2", "3", "4", "5", "6", "7", "8", "9">>[d + 1]

RECURSIVE NatStr(_)
NatStr(n) == IF n < 10 THEN <<Digit(n)>> ELSE NatStr(n \div 10) \o <<Digit(n % 10)>>

\* str(n) of an int
IntStr(n) == IF n < 0 THEN <<"-">> \o NatStr(-n) ELSE NatStr(n)

RECURSIVE Join(_, _)
\* sep.join(parts)
Join(sep, parts) ==
    IF Len(parts) = 0 THEN <<>>
    ELSE IF Len(parts) = 1 THEN parts[1]
    ELSE parts[1] \o sep \o Join(sep, Tail(parts))

\* FinalVersion.__str__
FinalVersion_str(self) ==
    LET rel == Join(<<".">>, [i \in 1..Len(self.release.items) |-> IntStr(self.release.items[i])])
        segments == IF self.epoch # None THEN <<IntStr(self.epoch.val), rel>> ELSE <<rel>>
    IN Join(<<"!">>, segments)

(***************************************************************************)
(* The comparison functions.                                               *)
(***************************************************************************)
\* _compare: 0, 1 or -1, None when no branch is taken, or the exception of
\* the first operator that raises.
Branches(eq, gt, lt) ==
    IF eq THEN Returns(PyInt(0))
    ELSE IF IsExc(gt) THEN Raises(gt)
    ELSE IF gt = "True" THEN Returns(PyInt(1))
    ELSE IF IsExc(lt) THEN Raises(lt)
    ELSE IF lt = "True" THEN Returns(PyInt(-1))
    ELSE Returns(None)

_compare(a, b) == Branches(PyEq(a, b), PyCompare(a, b, ">"), PyCompare(a, b, "<"))

IsTypeError(r) == r.raised /\ r.value.cls = "TypeError"

\* compare: the direct comparison; on TypeError the comparable forms are
\* compared, and the TypeError is raised again when an operand has none.
ExceptTypeError(direct, handler) == IF IsTypeError(direct) THEN handler ELSE direct

compare(a, b) ==
    ExceptTypeError(_compare(a, b),
                    IF HasComparable(a) /\ HasComparable(b)
                    THEN _compare(Comparable(a), Comparable(b))
                    ELSE Raises("TypeError"))

\* try/except/finally: the raise in the finally clause replaces whatever the
\* try or the except clause returned or raised.
FinallyRaise(body, exc) == Raises(exc)

\* Comparable._compare
Comparable_compare(self, other) ==
    FinallyRaise(ExceptTypeError(_compare(self, other),
                                 IF HasComparable(self) /\ HasComparable(other)
                                 THEN _compare(Comparable(self), Comparable(other))
                                 ELSE Raises("AttributeError")),
                 "TypeError")

(***************************************************************************)
(* Release: a tuple of ints.                                               *)
(***************************************************************************)
\* Position in items of the Python index (negative indices count from the end).
Pos(self, index) == IF index < 0 THEN Len(self.items) + index + 1 ELSE index + 1
InRange(self, index) == Pos(self, index) \in 1..Len(self.items)

\* Release.mutate
Release_mutate(self, key, value) ==
    IF InRange(self, key)
    THEN Returns(Release([self.items EXCEPT ![Pos(self, key)] = value]))
    ELSE Raises("IndexError")

\* Release.bump
\* Release.bump with the padding loop running one round too long.
Release_bump_overpad(self, index, step) ==
    IF index < Len(self.items)
    THEN IF InRange(self, index)
         THEN Release_mutate(self, index, self.items[Pos(self, index)] + step)
         ELSE Raises("IndexError")
    ELSE IF step > 0
    THEN Returns(Release([i \in 1..(index + 2) |->
                            IF i <= Len(self.items) THEN self.items[i]
                            ELSE IF i <= index + 1 THEN 0 ELSE step]))
    ELSE Raises("ValueError")

Release_bump(self, index, step) ==
    IF index < Len(self.items)
    THEN IF InRange(self, index)
         THEN Release_mutate(self, index, self.items[Pos(self, index)] + step)
         ELSE Raises("IndexError")
    ELSE IF step > 0
    THEN Returns(Release([i \in 1..(index + 1) |->
                            IF i <= Len(self.items) THEN self.items[i]
                            ELSE IF i <= index THEN 0 ELSE step]))
    ELSE Raises("ValueError")

(***************************************************************************)
(* The values the operations are applied to: every valid value within the  *)
(* bounds.                                                                 *)
(***************************************************************************)
Nums == 0..MaxNum
OptInts == {None} \cup {PyInt(n) : n \in Nums}
Releases == {Release(items) : items \in UNION {[1..k -> Nums] : k \in 1..MaxLen}}
Subreleases == {Subrelease(t, n) : t \in SubreleaseTypes, n \in Nums}
OptSubreleases == {None} \cup Subreleases
LocalLabels == {<<"a">>, <<"b", ".", "1">>}
OptLocals == {None} \cup {PyStr(l) : l \in LocalLabels}

FinalVersions == {FinalVersion(e, r) : e \in OptInts, r \in Releases}
PublicVersions ==
    {PublicVersion(f.epoch, f.release, s, d) : f \in FinalVersions, s \in OptSubreleases, d \in OptInts}
Versions ==
    {Version(v.epoch, v.release, v.subrelease, v.dev, l) : v \in PublicVersions, l \in OptLocals}

FieldValues(key) ==
    CASE key = "epoch" -> OptInts
      [] key = "release" -> Releases
      [] key = "subrelease" -> OptSubreleases
      [] key = "dev" -> OptInts
      [] key = "local" -> OptLocals

FieldsOf(x) == {Fields(x.cls)[i] : i \in 1..Len(Fields(x.cls))}

(***************************************************************************)
(* Comparing version values: both operands start as the default value of   *)
(* one class; a first mutate gives the value both stand for, then mutate,  *)
(* final() and public() derive the second operand from it.                 *)
(***************************************************************************)
Defaults ==
    {FinalVersion(None, Release(<<0>>)),
     PublicVersion(None, Release(<<0>>), None, None),
     Version(None, Release(<<0>>), None, None, None)}

Init ==
    /\ first \in Defaults
    /\ second = first
    /\ nmut = 0
    /\ pc = "new"
    /\ op = ""
    /\ out = NoOutcome
    /\ rev = NoOutcome
    /\ cform = Unset
    /\ text = <<>>
    /\ release = Release(<<0>>)
    /\ bumpOut = NoOutcome
    /\ bumpCall = Unset
    /\ PartIdle
    /\ store = <<>>
    /\ MainIdle

\* first = second = first.mutate(key, value)
Build(key, value) ==
    /\ pc = "new"
    /\ second = first
    /\ nmut = 0
    /\ key \in FieldsOf(first)
    /\ first' = Mutatable_mutate(first, key, value)
    /\ second' = first'
    /\ nmut' = nmut + 1
    /\ UNCHANGED <<pc, op, out, rev, cform, text, release, bumpOut, bumpCall, partVars, store, mainVars>>

\* second = second.mutate(key, value)
Mutate(key, value) ==
    /\ pc = "new"
    /\ nmut < MaxMutations
    /\ key \in FieldsOf(second)
    /\ second' = Mutatable_mutate(second, key, value)
    /\ nmut' = nmut + 1
    /\ UNCHANGED <<first, pc, op, out, rev, cform, text, release, bumpOut, bumpCall, partVars, store, mainVars>>

\* second = second.final()
Final ==
    /\ pc = "new"
    /\ second.cls \in {"PublicVersion", "Version"}
    /\ second' = IF second.cls = "Version" THEN Version_final(second)
                 ELSE PublicVersion_final(second)
    /\ UNCHANGED <<first, nmut, pc, op, out, rev, cform, text, release, bumpOut, bumpCall, partVars, store, mainVars>>

\* second = second.public()
Public ==
    /\ pc = "new"
    /\ second.cls = "Version"
    /\ second' = Version_public(second)
    /\ UNCHANGED <<first, nmut, pc, op, out, rev, cform, text, release, bumpOut, bumpCall, partVars, store, mainVars>>

\* compare(first, second) and compare(second, first)
Compare ==
    /\ pc = "new"
    /\ out' = compare(first, second)
    /\ rev' = compare(second, first)
    /\ pc' = "compare"
    /\ UNCHANGED <<first, second, nmut, op, cform, text, release, bumpOut, bumpCall, partVars, store, mainVars>>

\* compare() of the subrelease fields, each a Subrelease or None
CompareSubreleases ==
    /\ pc = "new"
    /\ "subrelease" \in FieldsOf(first) \cap FieldsOf(second)
    /\ out' = compare(first.subrelease, second.subrelease)
    /\ rev' = compare(second.subrelease, first.subrelease)
    /\ pc' = "subcompare"
    /\ UNCHANGED <<first, second, nmut, op, cform, text, release, bumpOut, bumpCall, partVars, store, mainVars>>

\* Comparable._compare(first, second)
ComparableCompare ==
    /\ pc = "new"
    /\ out' = Comparable_compare(first, second)
    /\ rev' = Comparable_compare(second, first)
    /\ pc' = "ccompare"
    /\ UNCHANGED <<first, second, nmut, op, cform, text, release, bumpOut, bumpCall, partVars, store, mainVars>>

\* second._comparable()
ToComparable ==
    /\ pc = "new"
    /\ cform' = Comparable(second)
    /\ pc' = "comparable"
    /\ UNCHANGED <<first, second, nmut, op, out, rev, text, release, bumpOut, bumpCall, partVars, store, mainVars>>

\* str(first) and str(second) of two compared FinalVersions
Str ==
    /\ pc = "compare"
    /\ first.cls = "FinalVersion"
    /\ second.cls = "FinalVersion"
    /\ text' = <<FinalVersion_str(first), FinalVersion_str(second)>>
    /\ pc' = "str"
    /\ UNCHANGED <<first, second, nmut, op, out, rev, cform, release, bumpOut, bumpCall, partVars, store, mainVars>>

Next ==
    \/ \E key \in {"epoch", "release", "subrelease", "dev", "local"} :
         \E value \in FieldValues(key) : Build(key, value)
    \/ \E key \in {"epoch", "release", "subrelease", "dev", "local"} :
         \E value \in FieldValues(key) : Mutate(key, value)
    \/ Final
    \/ Public
    \/ Compare
    \/ CompareSubreleases
    \/ ComparableCompare
    \/ ToComparable
    \/ Str

Spec == Init /\ [][Next]_vars

(***************************************************************************)
(* Comparing a SubreleaseType with another object, with each of the four   *)
(* ordering operators and in both operand orders.                          *)
(***************************************************************************)
TypeOperands ==
    SubreleaseTypes
    \cup {PyStr(SubreleaseTypeValues[i]) : i \in 1..Len(SubreleaseTypeValues)}
    \cup {PyStr(<<"x">>), PyStr(<<"c">>), PyStr(<<"z">>), PyStr(<<>>), None, PyInt(0)}

\* The bool or the exception of an operator, as a call outcome.
FromRich(o) == IF IsExc(o) THEN Raises(o) ELSE Returns(PyBool(o = "True"))

InitType ==
    /\ first \in SubreleaseTypes
    /\ second \in TypeOperands
    /\ nmut = 0
    /\ pc = "new"
    /\ op = ""
    /\ out = NoOutcome
    /\ rev = NoOutcome
    /\ cform = Unset
    /\ text = <<>>
    /\ release = Release(<<0>>)
    /\ bumpOut = NoOutcome
    /\ bumpCall = Unset
    /\ PartIdle
    /\ store = <<>>
    /\ MainIdle

\* first o second and second o first
RichCompare(o) ==
    /\ pc = "new"
    /\ op' = o
    /\ out' = FromRich(PyCompare(first, second, o))
    /\ rev' = FromRich(PyCompare(second, first, o))
    /\ pc' = "richcompare"
    /\ UNCHANGED <<first, second, nmut, cform, text, release, bumpOut, bumpCall, partVars, store, mainVars>>

NextType == \E o \in {"<", "<=", ">", ">="} : RichCompare(o)

SpecType == InitType /\ [][NextType]_vars

(***************************************************************************)
(* A Release bumped again and again.                                       *)
(***************************************************************************)
InitRelease ==
    /\ release \in Releases
    /\ bumpOut = NoOutcome
    /\ bumpCall = Unset
    /\ PartIdle
    /\ store = <<>>
    /\ MainIdle
    /\ first = None
    /\ second = None
    /\ nmut = 0
    /\ pc = "new"
    /\ op = ""
    /\ out = NoOutcome
    /\ rev = NoOutcome
    /\ cform = Unset
    /\ text = <<>>

\* release = release.bump(index, step); the Release is kept when bump raises.
\* nmut counts the bumps of a run.
Bump(index, step) ==
    /\ nmut < MaxBumps
    /\ nmut' = nmut + 1
    /\ bumpCall' = [self |-> release, index |-> index, step |-> step]
    /\ bumpOut' = Release_bump(release, index, step)
    /\ IF bumpOut'.raised THEN TRUE
       ELSE \A i \in 1..Len(bumpOut'.value.items) :
              bumpOut'.value.items[i] \in (0 - MaxItem)..MaxItem
    /\ release' = IF bumpOut'.raised THEN release ELSE bumpOut'.value
    /\ pc' = "bump"
    /\ UNCHANGED <<first, second, op, out, rev, cform, text, partVars, store, mainVars>>

NextRelease == \E index \in (0 - MaxPart)..MaxPart : \E step \in (0 - MaxStep)..MaxStep : Bump(index, step)

SpecRelease == InitRelease /\ [][NextRelease]_vars

(***************************************************************************)
(* The part-wise bump of a parsed version that main asks for:              *)
(* current_version.bump(positionals[0], vc.order()).  Numeric parts hold   *)
(* integers, an enumerated part holds an entry of its list of values.      *)
(***************************************************************************)
\* The lists of values of the enumerated parts; a part without one is numeric.
PartValues == [stage |-> <<"dev", "rc", "final">>]
IsNumeric(part) == part \notin DOMAIN PartValues

\* The orders of declaration a configuration gives.
Orders == {<<"major", "minor", "patch">>, <<"major", "minor", "patch", "stage">>}
Names(order) == {order[i] : i \in 1..Len(order)}
IndexOf(order, part) == CHOOSE i \in 1..Len(order) : order[i] = part

first_value(part) == IF IsNumeric(part) THEN 0 ELSE PartValues[part][1]

increment(part, value) ==
    IF IsNumeric(part)
    THEN Returns(value + 1)
    ELSE IF value = PartValues[part][Len(PartValues[part])]
    THEN Raises("ValuesExhausted")
    ELSE Returns(PartValues[part][IndexOf(PartValues[part], value) + 1])

\* bump that leaves the parts declared after part_name as they are.
Version_bump_noreset(vals, part_name, order) ==
    IF part_name \notin Names(order)
    THEN Raises("UnknownPart")
    ELSE IF increment(part_name, vals[part_name]).raised
    THEN increment(part_name, vals[part_name])
    ELSE Returns([q \in DOMAIN vals |->
                    IF q = part_name
                    THEN increment(part_name, vals[part_name]).value
                    ELSE vals[q]])

Version_bump(vals, part_name, order) ==
    IF part_name \notin Names(order)
    THEN Raises("UnknownPart")
    ELSE IF increment(part_name, vals[part_name]).raised
    THEN increment(part_name, vals[part_name])
    ELSE Returns([q \in DOMAIN vals |->
                    IF IndexOf(order, q) < IndexOf(order, part_name)
                    THEN vals[q]
                    ELSE IF q = part_name
                    THEN increment(part_name, vals[part_name]).value
                    ELSE first_value(q)])

\* The parsed versions of one order of declaration.
ParsedVersions(order) ==
    {[q \in Names(order) |-> IF IsNumeric(q) THEN n[q] ELSE e] :
        n \in [{q \in Names(order) : IsNumeric(q)} -> 0..MaxValue],
        e \in {PartValues.stage[i] : i \in 1..Len(PartValues.stage)}}

InitPart ==
    /\ \E order \in Orders :
         /\ values \in ParsedVersions(order)
         /\ partCall = [values |-> values, part_name |-> "", order |-> order]
    /\ partOut = NoOutcome
    /\ store = <<>>
    /\ MainIdle
    /\ release = Release(<<0>>)
    /\ bumpOut = NoOutcome
    /\ bumpCall = Unset
    /\ first = None
    /\ second = None
    /\ nmut = 0
    /\ pc = "new"
    /\ op = ""
    /\ out = NoOutcome
    /\ rev = NoOutcome
    /\ cform = Unset
    /\ text = <<>>

\* new_version = current_version.bump(part_name, vc.order()); the next bump
\* starts from the new version, or from the same one when bump raised.
BumpPart(part_name) ==
    /\ partCall' = [values |-> values, part_name |-> part_name, order |-> partCall.order]
    /\ partOut' = Version_bump(values, part_name, partCall.order)
    /\ IF partOut'.raised THEN TRUE
       ELSE \A q \in DOMAIN values : IsNumeric(q) => partOut'.value[q] <= MaxValue
    /\ values' = IF partOut'.raised THEN values ELSE partOut'.value
    /\ pc' = "partbump"
    /\ UNCHANGED <<first, second, nmut, op, out, rev, cform, text, release, bumpOut, bumpCall, store, mainVars>>

NextPart == \E part_name \in {"major", "minor", "patch", "stage", "build"} : BumpPart(part_name)

SpecPart == InitPart /\ [][NextPart]_vars


(***************************************************************************)
(* validate() of the value types.  A call that raises ends the method; a   *)
(* call that returns gives None.                                           *)
(***************************************************************************)
\* first; second, as two statements in a row.
AndThen(r1, r2) == IF r1.raised THEN r1 ELSE r2

\* The letters and digits of the model's alphabet, and the period.
local_chars == {Alphabet[i] : i \in 1..Len(Alphabet)} \ {"!", "+"}

Subrelease_validate(self) ==
    IF ~is_pos_int(PyInt(self.number)) THEN Raises("ValueError") ELSE Returns(None)

Release_validate(self) ==
    IF Len(self.items) < 1 THEN Raises("ValueError")
    ELSE IF \E i \in 1..Len(self.items) : ~is_pos_int(PyInt(self.items[i]))
    THEN Raises("ValueError")
    ELSE Returns(None)

FinalVersion_validate(self) ==
    IF self.epoch # None /\ ~is_pos_int(self.epoch)
    THEN Raises("ValueError")
    ELSE Release_validate(self.release)

\* self.subrelease.validate() is looked up on None when there is no subrelease.
PublicVersion_validate(self) ==
    AndThen(FinalVersion_validate(PublicVersion_final(self)),
    AndThen(IF self.subrelease = None
            THEN Raises("AttributeError")
            ELSE Subrelease_validate(self.subrelease),
            IF self.dev # None /\ ~is_pos_int(self.dev)
            THEN Raises("ValueError")
            ELSE Returns(None)))

\* local[0] of an empty str raises IndexError.
Version_validate(self) ==
    AndThen(PublicVersion_validate(Version_public(self)),
            IF self.local = None THEN Returns(None)
            ELSE IF \E i \in 1..Len(self.local.chars) : self.local.chars[i] \notin local_chars
            THEN Raises("ValueError")
            ELSE IF Len(self.local.chars) = 0 THEN Raises("IndexError")
            ELSE IF "." \in {self.local.chars[1], self.local.chars[Len(self.local.chars)]}
            THEN Raises("ValueError")
            ELSE Returns(None))

\* obj.validate()
Obj_validate(obj) ==
    CASE obj.cls = "Subrelease" -> Subrelease_validate(obj)
      [] obj.cls = "Release" -> Release_validate(obj)
      [] obj.cls = "FinalVersion" -> FinalVersion_validate(obj)
      [] obj.cls = "PublicVersion" -> PublicVersion_validate(obj)
      [] obj.cls = "Version" -> Version_validate(obj)

\* The values validate() is called on: any that the constructors accept,
\* valid or not.
AnyValues ==
    LET nums == (0 - 1)..MaxNum
        ints == {None} \cup {PyInt(n) : n \in nums}
        rels == {Release(items) : items \in {<<>>} \cup UNION {[1..k -> {0, n}] : n \in nums, k \in 1..MaxLen}}
        subs == {None} \cup {Subrelease(POST, n) : n \in nums}
        locals == {None} \cup {PyStr(l) : l \in LocalLabels \cup
                                 {<<>>, <<".", "a">>, <<"a", ".">>, <<"a", "!">>}}
    IN rels \cup (subs \ {None})
       \cup {FinalVersion(e, r) : e \in ints, r \in rels}
       \cup {PublicVersion(e, r, s, dv) : e \in ints, r \in rels, s \in subs, dv \in ints}
       \cup {Version(e, r, s, dv, l) :
               e \in ints, r \in rels, s \in subs, dv \in ints, l \in locals}

InitValidate ==
    /\ first \in AnyValues
    /\ second = first
    /\ nmut = 0
    /\ pc = "new"
    /\ op = ""
    /\ out = NoOutcome
    /\ rev = NoOutcome
    /\ cform = Unset
    /\ text = <<>>
    /\ release = Release(<<0>>)
    /\ bumpOut = NoOutcome
    /\ bumpCall = Unset
    /\ PartIdle
    /\ store = <<>>
    /\ MainIdle

\* second.validate()
Validate ==
    /\ pc = "new"
    /\ out' = Obj_validate(second)
    /\ pc' = "validate"
    /\ UNCHANGED <<first, second, nmut, op, rev, cform, text, release, bumpOut, bumpCall,
                   partVars, store, mainVars>>

SpecValidate == InitValidate /\ [][Validate]_vars


(***************************************************************************)
(* __str__ of the richer value types, and Version.parse.                   *)
(***************************************************************************)
\* Subrelease.__str__: the type is a StrEnum, its str is its value.
Subrelease_str(self) == self.type.chars \o IntStr(self.number)

\* PublicVersion.__str__: f"{self.final()}.{self.subrelease}"; str(None) is
\* "None".
PublicVersion_str(self) ==
    FinalVersion_str(PublicVersion_final(self)) \o <<".">> \o
    (IF self.subrelease = None THEN <<"N", "o", "n", "e">>
     ELSE Subrelease_str(self.subrelease))

\* Version.__str__
Version_str(self) ==
    Join(<<"+">>, IF self.local # None
                  THEN <<PublicVersion_str(Version_public(self)), self.local.chars>>
                  ELSE <<PublicVersion_str(Version_public(self))>>)

\* The parentheses of VERSION_PATTERN in the order they are written, comments
\* aside: (?: (?: (?P<epoch> ) )? (?P<release> (?: )* ) ( (?P<sub_type> )
\* (?P<sub_number> ) )? ( (?P<dev> )? ) (?: (?P<local> ) )?
VERSION_PATTERN ==
    <<"(", "(", "(", ")", ")", "(", "(", ")", ")", "(", "(", ")", "(", ")", ")",
      "(", "(", ")", ")", "(", "(", ")", ")">>

RECURSIVE Unclosed(_)
\* The number of groups of a pattern that are opened and not closed.
Unclosed(pattern) ==
    IF Len(pattern) = 0 THEN 0
    ELSE Unclosed(SubSeq(pattern, 1, Len(pattern) - 1)) +
         (IF pattern[Len(pattern)] = "(" THEN 1 ELSE 0 - 1)

\* re.compile: a group left open is an error ("missing ), unterminated
\* subpattern").
re_compile(pattern) ==
    IF Unclosed(pattern) # 0 THEN Raises("error") ELSE Returns([cls |-> "Pattern"])

\* version_re, assigned when the module is loaded.
version_re == re_compile(VERSION_PATTERN)

RECURSIVE int_of(_)
\* int(s) of a str of digits
int_of(s) ==
    IF Len(s) = 0 THEN 0
    ELSE 10 * int_of(SubSeq(s, 1, Len(s) - 1)) +
         (CHOOSE n \in 0..9 : Digit(n) = s[Len(s)])

RECURSIVE split(_, _)
\* s.split(sep) for a one-character sep
split(s, sep) ==
    IF \A i \in 1..Len(s) : s[i] # sep THEN <<s>>
    ELSE <<SubSeq(s, 1, Min({i \in 1..Len(s) : s[i] = sep}) - 1)>> \o
         split(SubSeq(s, Min({i \in 1..Len(s) : s[i] = sep}) + 1, Len(s)), sep)

\* Version.parse from the match on: match is None or the groups of the
\* pattern (epoch, release, sub_type, sub_number, dev, local), each None or a
\* str.  The groups subrelease_type and subrelease_number that the method
\* reads are not groups of the pattern: g.get gives None.
Version_parse_match(match) ==
    IF match = None THEN Raises("ValueError")
    ELSE AndThen(Version_validate(
                    Version(IF match.epoch # None /\ match.epoch.chars # <<>>
                            THEN PyInt(int_of(match.epoch.chars)) ELSE None,
                            Release([i \in 1..Len(split(match.release.chars, ".")) |->
                                        int_of(split(match.release.chars, ".")[i])]),
                            None,
                            IF match.dev # None /\ match.dev.chars # <<>>
                            THEN PyInt(int_of(match.dev.chars)) ELSE None,
                            match.local)),
                 Returns(
                    Version(IF match.epoch # None /\ match.epoch.chars # <<>>
                            THEN PyInt(int_of(match.epoch.chars)) ELSE None,
                            Release([i \in 1..Len(split(match.release.chars, ".")) |->
                                        int_of(split(match.release.chars, ".")[i])]),
                            None,
                            IF match.dev # None /\ match.dev.chars # <<>>
                            THEN PyInt(int_of(match.dev.chars)) ELSE None,
                            match.local)))

\* The outcomes of Version.parse(s).  The pattern does not compile, so the
\* assignment of version_re raises and no caller gets as far as the match;
\* were there a compiled pattern, the match would be None or some groups.
Version_parse(s) ==
    IF version_re.raised
    THEN {version_re}
    ELSE {Version_parse_match(match) :
            match \in {None} \cup
                [epoch : {None, PyStr(<<"1">>)},
                 release : {PyStr(<<"1", ".", "0", ".", "0">>), PyStr(<<"1", "0">>)},
                 sub_type : {None, PyStr(<<"a">>)},
                 sub_number : {None, PyStr(<<"1">>)},
                 dev : {None, PyStr(<<"1">>)},
                 local : {None, PyStr(<<"a">>)}]}

\* The texts given to parse.
Texts ==
    {<<"1", ".", "0", ".", "0", "a", "1">>, <<"1", ".", "0", ".", "0", ".", "a", "1">>,
     <<"1", ".", "0">>, <<"1", "!", "0", ".", "d", "e", "v", "1", "+", "a">>}

InitParse ==
    /\ first \in Versions
    /\ second = first
    /\ nmut = 0
    /\ pc = "new"
    /\ op = ""
    /\ out = NoOutcome
    /\ rev = NoOutcome
    /\ cform = Unset
    /\ text = <<>>
    /\ release = Release(<<0>>)
    /\ bumpOut = NoOutcome
    /\ bumpCall = Unset
    /\ PartIdle
    /\ store = <<>>
    /\ MainIdle

\* Version.parse(s)
Parse(s) ==
    /\ pc = "new"
    /\ text' = <<s>>
    /\ out' \in Version_parse(s)
    /\ pc' = "parse"
    /\ UNCHANGED <<first, second, nmut, op, rev, cform, release, bumpOut, bumpCall,
                   partVars, store, mainVars>>

\* Version.parse(str(second))
ParseStr ==
    /\ pc = "new"
    /\ text' = <<Version_str(second)>>
    /\ out' \in Version_parse(Version_str(second))
    /\ pc' = "parsestr"
    /\ UNCHANGED <<first, second, nmut, op, rev, cform, release, bumpOut, bumpCall,
                   partVars, store, mainVars>>

NextParse == ParseStr \/ \E s \in Texts : Parse(s)

SpecParse == InitParse /\ [][NextParse]_vars


(***************************************************************************)
(* The objects a program holds: store[i] is the i-th object created.  The  *)
(* methods that derive a value from self work on a copy of self's fields   *)
(* (lst = list(self), d = self._asdict()) and hand it to the constructor.  *)
(* Objects made inside _comparable and not returned are not kept.          *)
(***************************************************************************)
\* The method writes to self instead of a copy.
Allocate_inplace(objs, self, outcome) ==
    IF outcome.raised THEN objs ELSE [objs EXCEPT ![self] = outcome.value]

\* The store after a method of objs[self] that builds its result from a copy:
\* the result is one more object; nothing is made when the method raises.
Allocate(objs, self, outcome) ==
    IF outcome.raised THEN objs ELSE Append(objs, outcome.value)

InitStore ==
    /\ store \in {<<x>> : x \in Defaults \cup {Release(<<0>>)}}
    /\ first = None
    /\ second = None
    /\ nmut = 0
    /\ pc = "new"
    /\ op = ""
    /\ out = NoOutcome
    /\ rev = NoOutcome
    /\ cform = Unset
    /\ text = <<>>
    /\ release = Release(<<0>>)
    /\ bumpOut = NoOutcome
    /\ bumpCall = Unset
    /\ PartIdle
    /\ MainIdle

\* store[self].bump(index, step)
StoreBump(self, index, step) ==
    /\ Len(store) < MaxStore
    /\ store[self].cls = "Release"
    /\ out' = Release_bump(store[self], index, step)
    /\ store' = Allocate(store, self, out')
    /\ op' = "bump"
    /\ UNCHANGED <<first, second, nmut, pc, rev, cform, text, release, bumpOut, bumpCall,
                   partVars, mainVars>>

\* store[self].mutate(key, value) of a Release
StoreReleaseMutate(self, key, value) ==
    /\ Len(store) < MaxStore
    /\ store[self].cls = "Release"
    /\ out' = Release_mutate(store[self], key, value)
    /\ store' = Allocate(store, self, out')
    /\ op' = "Release.mutate"
    /\ UNCHANGED <<first, second, nmut, pc, rev, cform, text, release, bumpOut, bumpCall,
                   partVars, mainVars>>

\* store[self].mutate(key, value) of a FinalVersion, PublicVersion or Version
StoreMutate(self, key, value) ==
    /\ Len(store) < MaxStore
    /\ HasComparable(store[self])
    /\ key \in FieldsOf(store[self])
    /\ value \in FieldValues(key)
    /\ out' = Returns(Mutatable_mutate(store[self], key, value))
    /\ store' = Allocate(store, self, out')
    /\ op' = "mutate"
    /\ UNCHANGED <<first, second, nmut, pc, rev, cform, text, release, bumpOut, bumpCall,
                   partVars, mainVars>>

\* store[self]._comparable(): self itself when no field is missing.
StoreComparable(self) ==
    /\ Len(store) < MaxStore
    /\ HasComparable(store[self])
    /\ out' = Returns(Comparable(store[self]))
    /\ store' = IF Comparable(store[self]) = store[self]
                THEN store
                ELSE Allocate(store, self, out')
    /\ op' = "_comparable"
    /\ UNCHANGED <<first, second, nmut, pc, rev, cform, text, release, bumpOut, bumpCall,
                   partVars, mainVars>>

NextStore ==
    \E self \in 1..Len(store) :
        \/ \E index \in 0..MaxLen : \E step \in {0 - 1, 1} : StoreBump(self, index, step)
        \/ \E key \in (0 - 1)..MaxLen : \E value \in Nums : StoreReleaseMutate(self, key, value)
        \/ \E key \in {"epoch", "release", "dev"} :
             \E value \in OptInts \cup {Release(<<1>>)} : StoreMutate(self, key, value)
        \/ StoreComparable(self)

SpecStore == InitStore /\ [][NextStore]_vars


(***************************************************************************)
(* A run of main.  args holds what the run is given: the options of the    *)
(* command line, what the config file sets, and what the collaborators     *)
(* (the version control systems) report.  effects lists the calls main     *)
(* makes to the file and version control collaborators and its write of    *)
(* the config file, in order.  exit is "" while main runs, then "0" for a  *)
(* return, "2" for an argparse error, or the exception that ended main.    *)
(*   args.current_version: a current version is known (option, config      *)
(*                         file or latest tag) and vc.parse gives a value  *)
(*   args.part:            the part to bump is given (positionals[0])      *)
(*   args.new_version:     --new-version is given                          *)
(*   args.cfg_new_version: the config file sets new_version                *)
(*   args.cfg_allow_dirty: the text the config file sets allow_dirty to,   *)
(*                         "" for none; the text is not converted, so any  *)
(*                         other text counts as true                       *)
(*   args.files:           the number of configured files                  *)
(*   args.usable, dirty:   the usable systems, and whether the working     *)
(*                         directory is dirty                              *)
(***************************************************************************)
VCS == <<"Git", "Mercurial">>

\* The vcs the loop over VCS ends with: the first usable one, or None.
FirstUsable(usable) ==
    IF VCS[1] \in usable THEN VCS[1]
    ELSE IF VCS[2] \in usable THEN VCS[2]
    ELSE "None"

\* defaults["allow_dirty"] as a condition: the option, or else the text of
\* the config file, true when not empty.
defaults_allow_dirty(a) == a.allow_dirty \/ a.cfg_allow_dirty # ""

\* The config file is written whatever --dry-run says.
write_to_config_file_always(a) == a.config_file_exists

write_to_config_file(a) == (~a.dry_run) /\ a.config_file_exists

do_commit(a) == a.commit /\ ~a.dry_run

do_tag(a) == a.tag /\ ~a.dry_run

\* One call to a collaborator, or the write of the config file.
Event(kind, arg, flag) == [kind |-> kind, arg |-> arg, flag |-> flag]

InitMain ==
    /\ args \in [config_file_exists : BOOLEAN, cfg_new_version : BOOLEAN,
                 cfg_allow_dirty : {"", "False"},
                 current_version : BOOLEAN, part : BOOLEAN, new_version : BOOLEAN,
                 allow_dirty : BOOLEAN, dry_run : BOOLEAN, commit : BOOLEAN, tag : BOOLEAN,
                 files : 0..MaxFiles, usable : SUBSET {VCS[1], VCS[2]}, dirty : BOOLEAN]
    /\ args.config_file_exists \/ (~args.cfg_new_version /\ args.cfg_allow_dirty = "")
    /\ mainPc = "new_version"
    /\ vcs = "None"
    /\ found = ""
    /\ failure = ""
    /\ effects = <<>>
    /\ exit = ""
    /\ fileIdx = 0
    /\ first = None
    /\ second = None
    /\ nmut = 0
    /\ pc = "new"
    /\ op = ""
    /\ out = NoOutcome
    /\ rev = NoOutcome
    /\ cform = Unset
    /\ text = <<>>
    /\ release = Release(<<0>>)
    /\ bumpOut = NoOutcome
    /\ bumpCall = Unset
    /\ PartIdle
    /\ store = <<>>

\* The opportunistic new version: bump and serialize are tried when the
\* config file sets no new_version and a current version and a part are
\* given; their exception is logged and main goes on.  found tells where
\* defaults["new_version"] comes from.
ComputeNewVersion(outcome) ==
    /\ mainPc = "new_version"
    /\ IF (~args.cfg_new_version) /\ args.current_version /\ args.part
       THEN /\ found' = IF outcome = "" THEN "bump" ELSE ""
            /\ failure' = outcome
       ELSE /\ outcome = ""
            /\ found' = IF args.cfg_new_version THEN "config" ELSE ""
            /\ failure' = ""
    /\ mainPc' = "parse_args"
    /\ UNCHANGED <<args, vcs, effects, exit, fileIdx>>
    /\ UNCHANGED <<first, second, nmut, pc, op, out, rev, cform, text, release, bumpOut,
                   bumpCall, partVars, store>>

\* parser3.parse_args: --current-version and --new-version are required
\* unless defaults has them, part is required; an error ends main with
\* status 2.
ParseArgs ==
    /\ mainPc = "parse_args"
    /\ IF (~args.current_version) \/ (~args.part) \/ (found = "" /\ ~args.new_version)
       THEN exit' = "2" /\ mainPc' = "done"
       ELSE exit' = exit /\ mainPc' = "dirty"
    /\ UNCHANGED <<args, vcs, found, failure, effects, fileIdx>>
    /\ UNCHANGED <<first, second, nmut, pc, op, out, rev, cform, text, release, bumpOut,
                   bumpCall, partVars, store>>

\* The loop over VCS: the first usable one is asked assert_nondirty();
\* its exception ends main unless defaults["allow_dirty"].
CheckDirty ==
    /\ mainPc = "dirty"
    /\ vcs' = FirstUsable(args.usable)
    /\ effects' = IF vcs' # "None"
                  THEN Append(effects, Event("assert_nondirty", vcs', args.dirty))
                  ELSE effects
    /\ IF vcs' # "None" /\ args.dirty /\ ~defaults_allow_dirty(args)
       THEN exit' = "WorkingDirectoryIsDirtyException" /\ mainPc' = "done"
       ELSE exit' = exit /\ mainPc' = "check"
    /\ UNCHANGED <<args, found, failure, fileIdx>>
    /\ UNCHANGED <<first, second, nmut, pc, op, out, rev, cform, text, release, bumpOut,
                   bumpCall, partVars, store>>


\* The check and the rewrite of a file in one round of a single loop.
CheckFile_andreplace(contains) ==
    /\ mainPc = "check"
    /\ IF fileIdx < args.files
       THEN /\ effects' =
                IF contains
                THEN effects \o <<Event("should_contain_version", fileIdx + 1, contains),
                                  Event("replace", fileIdx + 1, args.dry_run)>>
                ELSE Append(effects, Event("should_contain_version", fileIdx + 1, contains))
            /\ fileIdx' = IF contains THEN fileIdx + 1 ELSE fileIdx
            /\ exit' = IF contains THEN exit ELSE "VersionNotFoundException"
            /\ mainPc' = IF contains THEN mainPc ELSE "done"
       ELSE /\ contains
            /\ effects' = effects
            /\ fileIdx' = 0
            /\ exit' = exit
            /\ mainPc' = "write_config"
    /\ UNCHANGED <<args, vcs, found, failure>>
    /\ UNCHANGED <<first, second, nmut, pc, op, out, rev, cform, text, release, bumpOut,
                   bumpCall, partVars, store>>

\* One round of "for f in files: f.should_contain_version(...)", or the end
\* of the loop; the collaborator's exception ends main.
CheckFile(contains) ==
    /\ mainPc = "check"
    /\ IF fileIdx < args.files
       THEN /\ effects' = Append(effects, Event("should_contain_version", fileIdx + 1, contains))
            /\ fileIdx' = IF contains THEN fileIdx + 1 ELSE fileIdx
            /\ exit' = IF contains THEN exit ELSE "VersionNotFoundException"
            /\ mainPc' = IF contains THEN mainPc ELSE "done"
       ELSE /\ contains
            /\ effects' = effects
            /\ fileIdx' = 0
            /\ exit' = exit
            /\ mainPc' = "replace"
    /\ UNCHANGED <<args, vcs, found, failure>>
    /\ UNCHANGED <<first, second, nmut, pc, op, out, rev, cform, text, release, bumpOut,
                   bumpCall, partVars, store>>

\* One round of "for f in files: f.replace(..., args.dry_run)", or the end of
\* the loop.
ReplaceFile ==
    /\ mainPc = "replace"
    /\ IF fileIdx < args.files
       THEN /\ effects' = Append(effects, Event("replace", fileIdx + 1, args.dry_run))
            /\ fileIdx' = fileIdx + 1
            /\ mainPc' = mainPc
       ELSE /\ effects' = effects
            /\ fileIdx' = 0
            /\ mainPc' = "write_config"
    /\ UNCHANGED <<args, vcs, found, failure, exit>>
    /\ UNCHANGED <<first, second, nmut, pc, op, out, rev, cform, text, release, bumpOut,
                   bumpCall, partVars, store>>

\* The new config is built and, if write_to_config_file, written.
WriteConfig ==
    /\ mainPc = "write_config"
    /\ effects' = IF write_to_config_file(args)
                  THEN Append(effects, Event("write_config", 0, FALSE))
                  ELSE effects
    /\ mainPc' = "vcs"
    /\ UNCHANGED <<args, vcs, found, failure, exit, fileIdx>>
    /\ UNCHANGED <<first, second, nmut, pc, op, out, rev, cform, text, release, bumpOut,
                   bumpCall, partVars, store>>

\* The end of main: return without vcs; else add_path for every configured
\* file and for the config file if it exists (file 0), commit, tag.
CommitAndTag ==
    /\ mainPc = "vcs"
    /\ effects' =
         IF vcs = "None" THEN effects
         ELSE effects
              \o (IF do_commit(args)
                  THEN [i \in 1..args.files |-> Event("add_path", i, TRUE)]
                       \o (IF args.config_file_exists
                           THEN <<Event("add_path", 0, TRUE)>> ELSE <<>>)
                       \o <<Event("commit", vcs, TRUE)>>
                  ELSE <<>>)
              \o (IF do_tag(args) THEN <<Event("tag", vcs, TRUE)>> ELSE <<>>)
    /\ exit' = "0"
    /\ mainPc' = "done"
    /\ UNCHANGED <<args, vcs, found, failure, fileIdx>>
    /\ UNCHANGED <<first, second, nmut, pc, op, out, rev, cform, text, release, bumpOut,
                   bumpCall, partVars, store>>

NextMain ==
    \/ \E outcome \in {"", "MissingValueForSerializationException",
                       "IncompleteVersionRepresentationException", "KeyError"} :
          ComputeNewVersion(outcome)
    \/ ParseArgs
    \/ CheckDirty
    \/ \E contains \in BOOLEAN : CheckFile(contains)
    \/ ReplaceFile
    \/ WriteConfig
    \/ CommitAndTag

SpecMain == InitMain /\ [][NextMain]_vars

(***************************************************************************)
(* Properties.                                                             *)
(***************************************************************************)
Zero == Returns(PyInt(0))
Greater == Returns(PyInt(1))
Less == Returns(PyInt(-1))
Ordered == {Less, Zero, Greater}
Chars(str) == {str[i] : i \in 1..Len(str)}

\* The precedence table of the subrelease types: alpha, beta, release
\* candidate, anything unrecognized, post.
Precedence(x) ==
    IF ~IsStrLike(x) THEN 4
    ELSE CASE x.chars = <<"a">> -> 1
           [] x.chars = <<"b">> -> 2
           [] x.chars = <<"r", "c">> -> 3
           [] x.chars = <<"p", "o", "s", "t">> -> 5
           [] OTHER -> 4

\* The operand projected down to the named class.
ProjectTo(x, cls) ==
    IF x.cls = cls THEN x
    ELSE IF cls = "FinalVersion" THEN FinalVersion(x.epoch, x.release)
    ELSE PublicVersion(x.epoch, x.release, x.subrelease, x.dev)
Richness(x) == Len(Fields(x.cls))

\* C1: comparing two valid values of the same type gives exactly one of
\* less, equal, greater, the opposite answer with the operands swapped, and
\* the answers are transitive.
CompareIsTotalOrder ==
    /\ (pc = "compare" /\ first.cls = second.cls) =>
         /\ out \in Ordered
         /\ rev \in Ordered
         /\ (out = Zero) = (rev = Zero)
         /\ (out = Greater) = (rev = Less)
         /\ \A key \in FieldsOf(second) : \A value \in FieldValues(key) :
              LET third == Mutatable_mutate(second, key, value)
              IN (out \in {Less, Zero} /\ compare(second, third) \in {Less, Zero})
                   => compare(first, third) \in {Less, Zero}
    /\ (pc = "subcompare" /\ first.subrelease # None /\ second.subrelease # None) =>
         /\ out \in Ordered
         /\ rev \in Ordered
         /\ (out = Zero) = (rev = Zero)
         /\ (out = Greater) = (rev = Less)

\* C2: of two PublicVersions equal but for the dev number, the one without
\* a dev number compares strictly greater.
NoDevOutranksDev ==
    (/\ pc = "compare"
     /\ first.cls = "PublicVersion"
     /\ second.cls = "PublicVersion"
     /\ first.epoch = second.epoch
     /\ first.release = second.release
     /\ first.subrelease = second.subrelease
     /\ first.dev = None
     /\ second.dev # None)
    => (out = Greater /\ rev = Less)

\* C3: a Subrelease compared with None, in either order, gives an answer:
\* post is greater than None, a pre-release type is less than None.
SubreleaseAgainstNone ==
    (/\ pc = "subcompare"
     /\ first.subrelease # None
     /\ second.subrelease = None)
    => IF SubreleaseType_is_pre(first.subrelease.type)
       THEN out = Less /\ rev = Greater
       ELSE out = Greater /\ rev = Less

SubreleaseOrder ==
    (/\ pc = "subcompare"
     /\ first.subrelease # None
     /\ second.subrelease # None)
    => LET s == first.subrelease
           t == second.subrelease
       IN /\ ~out.raised
          /\ (out = Greater) =
               (\/ Precedence(s.type) > Precedence(t.type)
                \/ s.type = t.type /\ s.number > t.number)

\* C6: values of different richness compare as the simpler one compares
\* with the projection of the richer one.
CrossRichnessByProjection ==
    (pc = "compare" /\ first.cls # second.cls) =>
        LET cls == IF Richness(first) < Richness(second) THEN first.cls ELSE second.cls
        IN /\ out = compare(ProjectTo(first, cls), ProjectTo(second, cls))
           /\ rev = compare(ProjectTo(second, cls), ProjectTo(first, cls))

\* C7: compare and Comparable._compare return the direct answer when the
\* operands compare directly, compare the comparable forms when the direct
\* comparison raises TypeError, and raise only when that fails too.
CompareEntryPoints ==
    pc \in {"compare", "ccompare"} =>
        LET direct == _compare(first, second)
        IN /\ ~direct.raised => out = direct
           /\ IsTypeError(direct) => out = _compare(Comparable(first), Comparable(second))

BumpKeepsNonNegative ==
    (pc = "bump" /\ ~bumpOut.raised) =>
        \A i \in 1..Len(bumpOut.value.items) : bumpOut.value.items[i] >= 0

\* C11: Release.bump(index, step) with index at or beyond the end: for
\* step > 0 it returns a Release of length index + 1 that starts with the
\* original components, has 0 from the old end up to index and has step at
\* index; for step <= 0 it raises and returns no Release.
BumpBeyondEnd ==
    (pc = "bump" /\ bumpCall.index >= Len(bumpCall.self.items)) =>
        IF bumpCall.step > 0
        THEN /\ ~bumpOut.raised
             /\ bumpOut.value.cls = "Release"
             /\ Len(bumpOut.value.items) = bumpCall.index + 1
             /\ \A i \in 1..Len(bumpCall.self.items) :
                  bumpOut.value.items[i] = bumpCall.self.items[i]
             /\ \A i \in (Len(bumpCall.self.items) + 1)..bumpCall.index :
                  bumpOut.value.items[i] = 0
             /\ bumpOut.value.items[bumpCall.index + 1] = bumpCall.step
        ELSE bumpOut.raised

BumpBeyondEndWitness ==
    /\ pc = "bump"
    /\ bumpCall = [self |-> Release(<<1>>), index |-> 3, step |-> 2]
    /\ bumpOut = Returns(Release(<<1, 0, 0, 2>>))

\* C12: bump(p, order) leaves every part declared before p as it was,
\* increments p, and sets every part declared after p to its initial value
\* (0 for a numeric part, the first entry for an enumerated part).
ResetCascade ==
    (pc = "partbump" /\ ~partOut.raised) =>
        \A i \in 1..Len(partCall.order) :
            IF i < IndexOf(partCall.order, partCall.part_name)
            THEN partOut.value[partCall.order[i]] = partCall.values[partCall.order[i]]
            ELSE IF i > IndexOf(partCall.order, partCall.part_name)
            THEN partOut.value[partCall.order[i]] =
                    (IF partCall.order[i] = "stage" THEN "dev" ELSE 0)
            ELSE IF partCall.part_name = "stage"
            THEN <<partCall.values.stage, partOut.value.stage>> \in
                    {<<"dev", "rc">>, <<"rc", "final">>}
            ELSE partOut.value[partCall.part_name] =
                    partCall.values[partCall.part_name] + 1

ResetCascadeWitness ==
    /\ pc = "partbump"
    /\ partCall = [values |-> [major |-> 1, minor |-> 4, patch |-> 9],
                   part_name |-> "minor",
                   order |-> <<"major", "minor", "patch">>]
    /\ partOut = Returns([major |-> 1, minor |-> 5, patch |-> 0])

\* The conditions under which a value is valid: the release non-empty with
\* components >= 0, the epoch absent or >= 0, the subrelease absent or with
\* number >= 0, the dev number absent or >= 0, the local label absent or made
\* of letters, digits and periods with no period first or last.
ValidRelease(r) == Len(r.items) >= 1 /\ \A i \in 1..Len(r.items) : r.items[i] >= 0
ValidOptInt(n) == n = None \/ n.val >= 0
ValidLocal(l) ==
    \/ l = None
    \/ /\ \A i \in 1..Len(l.chars) : l.chars[i] \notin {"!", "+"}
       /\ Len(l.chars) > 0 => (l.chars[1] # "." /\ l.chars[Len(l.chars)] # ".")
Valid(x) ==
    CASE x.cls = "Subrelease" -> x.number >= 0
      [] x.cls = "Release" -> ValidRelease(x)
      [] x.cls = "FinalVersion" -> ValidOptInt(x.epoch) /\ ValidRelease(x.release)
      [] x.cls = "PublicVersion" ->
            /\ ValidOptInt(x.epoch) /\ ValidRelease(x.release) /\ ValidOptInt(x.dev)
            /\ (x.subrelease = None \/ x.subrelease.number >= 0)
      [] x.cls = "Version" ->
            /\ ValidOptInt(x.epoch) /\ ValidRelease(x.release) /\ ValidOptInt(x.dev)
            /\ (x.subrelease = None \/ x.subrelease.number >= 0)
            /\ ValidLocal(x.local)

\* C13: validate() returns exactly for the valid values, a value without
\* subrelease included, and raises the validation error (ValueError) for
\* every other value.
ValidateAcceptsExactlyValid ==
    pc = "validate" =>
        IF Valid(second) THEN out = Returns(None) ELSE out = Raises("ValueError")

\* C14: Version.parse of the text 1.0.0a1 returns the Version with epoch
\* None, release (1, 0, 0), subrelease (alpha, 1), dev None and local None.
ParseAlphaOne ==
    (pc = "parse" /\ text = << <<"1", ".", "0", ".", "0", "a", "1">> >>) =>
        out = Returns(Version(None, Release(<<1, 0, 0>>), Subrelease(ALPHA, 1), None, None))

\* C15: for every valid Version v, Version.parse(str(v)) returns a value
\* equal to v.
ParseInvertsStr ==
    (pc = "parsestr" /\ Valid(second)) => (~out.raised /\ PyEq(out.value, second))

Kinds == {effects[k].kind : k \in 1..Len(effects)}
\* A configured file or the config file has been rewritten.
Rewritten ==
    \E k \in 1..Len(effects) :
        \/ effects[k].kind = "write_config"
        \/ effects[k].kind = "replace" /\ ~effects[k].flag

\* C17: when the computation of the new version fails (missing value for
\* serialization, incomplete version representation, unknown part), no
\* configured file and no config file is rewritten, and the run ends with a
\* non-zero status, --new-version given or not.
FailedNewVersionFailsRun ==
    failure # "" => (~Rewritten /\ (mainPc = "done" => exit # "0"))

\* C18: a file is rewritten only after every configured file has been
\* checked to contain the current version; when a check fails, no file is
\* rewritten, the config file is not written, and nothing is added,
\* committed or tagged.
ChecksBeforeRewrites ==
    /\ \A k \in 1..Len(effects) :
         effects[k].kind = "replace" =>
            \A f \in 1..args.files :
               \E j \in 1..(k - 1) : effects[j] = Event("should_contain_version", f, TRUE)
    /\ exit = "VersionNotFoundException" =>
         Kinds \cap {"replace", "write_config", "add_path", "commit", "tag"} = {}

ChecksBeforeRewritesWitness ==
    /\ exit = "VersionNotFoundException"
    /\ args.files = 2
    /\ ~args.dry_run
    /\ args.commit
    /\ vcs = "Git"
    /\ effects = <<Event("assert_nondirty", "Git", FALSE),
                   Event("should_contain_version", 1, TRUE),
                   Event("should_contain_version", 2, FALSE)>>

\* C19: with --dry-run, a run never writes the config file and never calls
\* add_path, commit or tag, whatever --commit, --tag and the existence of
\* the config file; every replace is asked for in dry-run mode.
DryRunTouchesNothing ==
    (mainPc # "" /\ args.dry_run) =>
        /\ Kinds \cap {"write_config", "add_path", "commit", "tag"} = {}
        /\ \A k \in 1..Len(effects) : effects[k].kind = "replace" => effects[k].flag

DryRunWitness ==
    /\ mainPc = "done"
    /\ exit = "0"
    /\ args.dry_run /\ args.commit /\ args.tag /\ args.config_file_exists
    /\ vcs = "Mercurial"
    /\ args.files = 2
    /\ "replace" \in Kinds

\* C20: once the loop over the version control systems is done, vcs is the
\* first usable one of Git, Mercurial, or None; if it reports a dirty working
\* directory, then without --allow-dirty main has ended with the dirty
\* working directory error before any file was checked or rewritten and
\* before the config file was written, and with --allow-dirty it has not
\* ended with that error.
DirtyAbortsUnlessAllowed ==
    (mainPc \in {"check", "replace", "write_config", "vcs"} \/ (mainPc = "done" /\ exit # "2")) =>
        /\ vcs = (IF "Git" \in args.usable THEN "Git"
                  ELSE IF "Mercurial" \in args.usable THEN "Mercurial" ELSE "None")
        /\ (vcs # "None" /\ args.dirty /\ ~args.allow_dirty) =>
              /\ exit = "WorkingDirectoryIsDirtyException"
              /\ Kinds \cap {"should_contain_version", "replace", "write_config"} = {}
        /\ (vcs # "None" /\ args.dirty /\ args.allow_dirty) =>
              exit # "WorkingDirectoryIsDirtyException"

\* C21: Version.public() returns the PublicVersion with the epoch, release,
\* subrelease and dev number of the Version it is called on; only the local
\* label is dropped.  (The step from a Version to a PublicVersion is the
\* call of public().)
PublicKeepsDev ==
    [][(second.cls = "Version" /\ second'.cls = "PublicVersion") =>
          second' = PublicVersion(second.epoch, second.release, second.subrelease,
                                  second.dev)]_vars

====
